---- MODULE Spec2Model ----
(***************************************************************************)
(* A model of the SHL catalog crawler (new_scrapper2.py): the retrying    *)
(* fetcher, the pagination discoverer, the record extractor, the duration *)
(* enricher, the recursive crawl of SHLScraper and the module-level        *)
(* scrape_all_shl_assessments (run_crawl) with its cache and its sample    *)
(* fallback.                                                               *)
(*                                                                         *)
(* Conventions.  An optional value is a sequence of length at most one:    *)
(* None is <<>>, Some(x) is <<x>>.  A URL or href is a tuple: <<>> is the  *)
(* empty string, <<"rel", k, i>> a relative reference, <<"http", k, i>>    *)
(* an absolute http(s) URL, <<"javascript", k, i>> a javascript: link.     *)
(* A text whose characters matter is a sequence of one-character strings.  *)
(***************************************************************************)
EXTENDS Integers, Sequences, FiniteSets, TLC

VARIABLES
    force_refresh,    \* argument of run_crawl
    cache,            \* the file shl_assessments.json
    max_depth,        \* SHLScraper.max_depth
    pc,               \* position of run_crawl
    crawled,          \* the try block of run_crawl was entered
    processed_urls,   \* SHLScraper.processed_urls
    stack,            \* the active scrape_page calls, innermost last
    scraped,          \* what the root scrape_page call returned
    assessments_dicts,\* the deduplicated records
    durations,        \* the enrichment pass's results so far
    result,           \* what run_crawl returned
    fetchLog,         \* the listing-page fetches of this crawl, in order
    parsedLog,        \* the records of every page parsed in this crawl, in order
    enrichLog,        \* the detail-page URLs given to extract_duration
    budget,           \* what the site may still serve in this run
    callIn,           \* argument of the function under test
    callOut           \* its result

vars == <<force_refresh, cache, max_depth, pc, crawled, processed_urls, stack,
          scraped, assessments_dicts, durations, result, fetchLog, parsedLog,
          enrichLog, budget, callIn, callOut>>

crawlVars == <<force_refresh, cache, max_depth, pc, crawled, processed_urls,
               stack, scraped, assessments_dicts, durations, result, fetchLog,
               parsedLog, enrichLog, budget>>

(***************************************************************************)
(* Bounds of the model.                                                    *)
(***************************************************************************)
NumPages == 2        \* listing pages besides the catalog root
NumDetail == 2       \* detail-page URLs
MaxLinks == 2        \* pagination links on one page
MaxRows == 2         \* rows or cards on one page
MaxRecs == 3         \* raw rows or cards the site serves in one crawl
MaxLinkTotal == 3    \* pagination links the site serves in one crawl
RunRecs == 1         \* the same two budgets for the run_crawl specification
RunLinkTotal == 1
MaxMaxDepth == 2     \* largest max_depth a scraper is constructed with
JitterDen == 4       \* random.random() is drawn from {0/4, 1/4, 2/4, 3/4}
MaxTypeLen == 3      \* characters in the text of a type cell
MaxCardTypeLen == 2  \* characters in the text of a card's type element
MaxPhrases == 2      \* number-bearing phrases in the text of a detail page
MaxDurElems == 2     \* duration-labelled elements on a detail page

(***************************************************************************)
(* Program constants.                                                      *)
(***************************************************************************)
MAX_RETRIES == 5
MIN_RETRY_DELAY == 2
MAX_RETRY_DELAY == 10
DEFAULT_MAX_DEPTH == 5
CACHE_MIN_RECORDS == 5
CACHE_MAX_AGE_DAYS == 7
SECONDS_PER_DAY == 86400
BASE_URL == <<"http", "catalog", 0>>

None == <<>>
Some(x) == <<x>>

Min(a, b) == IF a <= b THEN a ELSE b

RECURSIVE Pow2(_)
Pow2(n) == IF n = 0 THEN 1 ELSE 2 * Pow2(n - 1)

SeqsUpTo(S, n) == UNION {[1..k -> S] : k \in 0..n}

(***************************************************************************)
(* fetch_with_retry.  outcomes[i] says whether the i-th network attempt    *)
(* succeeds; jit[i] / JitterDen is the value random.random() returns after *)
(* the i-th failure.  Delays are kept multiplied by 2 * JitterDen, so that *)
(* min(MAX, MIN * 2^attempt) * (0.5 + r) stays an integer.                 *)
(***************************************************************************)
DelayScale == 2 * JitterDen

BackoffCap(attempt) == Min(MAX_RETRY_DELAY, MIN_RETRY_DELAY * Pow2(attempt))

JitterFactor(j) == JitterDen + 2 * j

BackoffDelay(attempt, j) == BackoffCap(attempt) * JitterFactor(j)

\* variant: one attempt too many
RetryLimitPlusOne == MAX_RETRIES + 1

RetryLimit == MAX_RETRIES

RECURSIVE fetch_attempt(_, _, _)
fetch_attempt(attempt, outcomes, jit) ==
    IF attempt >= RetryLimit
    THEN [ok |-> FALSE, raised |-> FALSE, attempts |-> attempt, delays |-> <<>>]
    ELSE IF outcomes[attempt + 1]
    THEN [ok |-> TRUE, raised |-> FALSE, attempts |-> attempt + 1, delays |-> <<>>]
    ELSE IF attempt < RetryLimit - 1
    THEN LET rest == fetch_attempt(attempt + 1, outcomes, jit)
         IN  [rest EXCEPT !.delays = <<BackoffDelay(attempt, jit[attempt + 1])>> \o @]
    ELSE [ok |-> FALSE, raised |-> TRUE, attempts |-> attempt + 1, delays |-> <<>>]

fetch_with_retry(outcomes, jit) == fetch_attempt(0, outcomes, jit)

\* The network as one fetch_with_retry call sees it: one more attempt than
\* the retry limit could be answered.
Outcomes == [1..(MAX_RETRIES + 1) -> BOOLEAN]
JitterChoices == {[i \in 1..MAX_RETRIES |-> j] : j \in 0..(JitterDen - 1)}
    \cup {[i \in 1..MAX_RETRIES |-> (i + j) % JitterDen] : j \in 0..(JitterDen - 1)}

\* k failures, then successes
FailFirst(k) == [i \in 1..(MAX_RETRIES + 1) |-> i > k]
NoJitter == [i \in 1..MAX_RETRIES |-> 0]

InitFetch ==
    /\ callIn \in {[op |-> "fetch_with_retry", outcomes |-> o, jit |-> j] :
                     o \in Outcomes, j \in JitterChoices}
    /\ callOut = None

CallFetch ==
    /\ callIn.op = "fetch_with_retry"
    /\ callOut = None
    /\ callOut' = Some(fetch_with_retry(callIn.outcomes, callIn.jit))
    /\ UNCHANGED callIn


(***************************************************************************)
(* Texts.                                                                  *)
(***************************************************************************)
RECURSIVE LStrip(_)
LStrip(t) == IF t # <<>> /\ Head(t) = " " THEN LStrip(Tail(t)) ELSE t

RECURSIVE RStrip(_)
RStrip(t) == IF t # <<>> /\ t[Len(t)] = " " THEN RStrip(SubSeq(t, 1, Len(t) - 1)) ELSE t

\* str.strip()
Strip(t) == RStrip(LStrip(t))

\* str.split(","): the pieces between the commas; one piece for a text
\* without a comma, the empty text included
RECURSIVE SplitComma(_, _)
SplitComma(t, piece) ==
    IF t = <<>> THEN <<piece>>
    ELSE IF Head(t) = "," THEN <<piece>> \o SplitComma(Tail(t), <<>>)
    ELSE SplitComma(Tail(t), Append(piece, Head(t)))

\* the text as one string
RECURSIVE Str(_)
Str(t) == IF t = <<>> THEN "" ELSE Head(t) \o Str(Tail(t))

Map(f(_), s) == [i \in 1..Len(s) |-> f(s[i])]

StripStr(t) == Str(Strip(t))

\* [t.strip() for t in text.split(",")]
SplitStrip(t) == Map(StripStr, SplitComma(t, <<>>))

RECURSIVE Flatten(_)
Flatten(ss) == IF ss = <<>> THEN <<>> ELSE Head(ss) \o Flatten(Tail(ss))

(***************************************************************************)
(* URLs.                                                                   *)
(***************************************************************************)
StartsWithHttp(h) == h # <<>> /\ h[1] = "http"

\* urljoin(BASE_URL, h): a reference with a scheme stays as it is, a
\* relative one is resolved against the catalog root
urljoin(h) == IF h # <<>> /\ h[1] = "rel" THEN <<"http", h[2], h[3]>> ELSE h

\* variant: a relative reference is resolved against where the crawl stands
ResolveHrefFromCrawl(h) ==
    IF h # <<>> /\ h[1] = "rel"
    THEN <<"http", h[2], h[3] + Cardinality(processed_urls)>>
    ELSE h

\* "if url and not url.startswith('http'): url = urljoin(BASE_URL, url)"
ResolveHref(h) == IF h # <<>> /\ ~StartsWithHttp(h) THEN urljoin(h) ELSE h

IsAbsolute(u) == u # <<>> /\ u[1] = "http"

DetailUrl(i) == <<"http", "detail", i>>

(***************************************************************************)
(* detect_pagination.  links are the <a> elements inside the pagination    *)
(* regions, buttons the load-more elements, both in document order.        *)
(***************************************************************************)
LinkKept(l) ==
    /\ l.href # <<>>
    /\ ~l.active
    /\ l.href[1] # "javascript"

\* variant: visited URLs are returned too
NotProcessedAlways(u, processed) == TRUE

NotProcessed(u, processed) == u \notin processed

RECURSIVE PaginationLinks(_, _)
PaginationLinks(links, processed) ==
    IF links = <<>> THEN <<>>
    ELSE LET l == Head(links)
             href == ResolveHref(l.href)
             rest == PaginationLinks(Tail(links), processed)
         IN  IF LinkKept(l) /\ href # <<>> /\ NotProcessed(href, processed)
             THEN <<href>> \o rest
             ELSE rest

RECURSIVE LoadMoreUrls(_, _)
LoadMoreUrls(buttons, processed) ==
    IF buttons = <<>> THEN <<>>
    ELSE LET data_url == ResolveHref(Head(buttons).data_url)
             rest == LoadMoreUrls(Tail(buttons), processed)
         IN  IF data_url # <<>> /\ NotProcessed(data_url, processed)
             THEN <<data_url>> \o rest
             ELSE rest

detect_pagination(html, processed) ==
    PaginationLinks(html.links, processed) \o LoadMoreUrls(html.buttons, processed)

(***************************************************************************)
(* _parse_table_row and _parse_product_card.                               *)
(***************************************************************************)
TypeCodes == {"A", "B", "C", "D", "E", "K", "P", "S"}

type_map(c) ==
    CASE c = "A" -> "Ability & Aptitude"
      [] c = "B" -> "Biodata & Situational Judgement"
      [] c = "C" -> "Competencies"
      [] c = "D" -> "Development & 360"
      [] c = "E" -> "Assessment Exercises"
      [] c = "K" -> "Knowledge & Skills"
      [] c = "P" -> "Personality & Behavior"
      [] c = "S" -> "Simulations"

InTypeMap(c) == c \in TypeCodes

\* the names that contain, in lower case, one of the technology keywords
\* "java", "python", "sql", "javascript", ".net", "c#"
TechNames == {"Java", "Core Java", "SQL Server"}

HasTechSkill(name) == name \in TechNames

Contains(s, x) == \E i \in 1..Len(s) : s[i] = x

AppendNew(s, x) == IF Contains(s, x) THEN s ELSE Append(s, x)

\* variant: only the first code letter counts
CodeTypesFirst(text) ==
    IF SelectSeq(text, InTypeMap) = <<>> THEN <<>>
    ELSE <<type_map(SelectSeq(text, InTypeMap)[1])>>

CodeTypes(text) == Map(type_map, SelectSeq(text, InTypeMap))

TextTypes(text) ==
    IF text = <<>> THEN <<>>
    ELSE IF Contains(text, ",") THEN SplitStrip(text)
    ELSE <<Str(text)>>

RowTestTypes(cell_text, name) ==
    LET text == Strip(cell_text)
        coded == CodeTypes(text)
        base == IF coded # <<>> THEN coded ELSE TextTypes(text)
        tech == IF HasTechSkill(name)
                THEN AppendNew(AppendNew(base, "Knowledge & Skills"), "Technical Skills")
                ELSE base
    IN  IF tech = <<>> THEN <<"Unspecified">> ELSE tech

\* cells: the <td> cells of one row, at least four
_parse_table_row(row) ==
    IF ~row.link THEN None
    ELSE LET name == row.name
             url == ResolveHref(row.href)
         IN  Some([name |-> name,
                   url |-> url,
                   remote_testing |-> row.remote,
                   adaptive_irt |-> row.adaptive,
                   test_type |-> RowTestTypes(row.type, name),
                   duration |-> None])

CardAccepted(name, url) == name # "" /\ url # <<>>

\* card.name: text of the heading, "" without one; card.href: href of the
\* first <a>, <<>> without one; card.type: text of the type element, if
\* any; card.minutes: the number before "min" in the duration element
_parse_product_card(card) ==
    LET name == card.name
        url == ResolveHref(card.href)
        test_types == IF card.type = None THEN <<>>
                      ELSE SplitStrip(Strip(card.type[1]))
    IN  IF CardAccepted(name, url)
        THEN Some([name |-> name,
                   url |-> url,
                   remote_testing |-> card.remote,
                   adaptive_irt |-> card.adaptive,
                   test_type |-> test_types,
                   duration |-> card.minutes])
        ELSE None

(***************************************************************************)
(* parse_assessment_table.  A document is the sequence of its table-like   *)
(* elements (tables and grid containers) and the cards outside every grid  *)
(* container.  hdr is the set of the probed words that the joined, lower-  *)
(* cased header text of the element contains.                              *)
(***************************************************************************)
\* "table.products-table, table.product-catalog, .product-grid, .assessment-grid"
IsKnownRegion(e) ==
    \/ e.tag = "table" /\ e.cls \in {"products-table", "product-catalog"}
    \/ e.cls \in {"product-grid", "assessment-grid"}

\* the class attribute contains "grid", "cards" or "products"
IsGridClass(cls) == cls \in {"product-grid", "assessment-grid", "products-table"}

IsTable(e) == e.tag = "table"

\* variant: the tokens "name", "product", "assessment" and "remote", "type",
\* "duration"
HeaderHeuristicLoose(e) ==
    /\ e.hdr \cap {"name", "product", "assessment"} # {}
    /\ e.hdr \cap {"remote", "type", "duration"} # {}

HeaderHeuristic(e) ==
    /\ e.hdr \cap {"product name", "test name", "assessment name", "name"} # {}
    /\ e.hdr \cap {"remote", "online", "testing", "type", "duration"} # {}

LooksLikeAssessmentTable(e) ==
    e.hdr \cap {"name", "product", "remote", "test type"} # {}

RECURSIVE FirstWith(_, _)
FirstWith(elems, i) ==
    IF i > Len(elems) THEN <<>>
    ELSE IF HeaderHeuristic(elems[i]) THEN <<elems[i]>>
    ELSE FirstWith(elems, i + 1)

RowParsed(row) == IF row.ncells < 4 THEN None ELSE _parse_table_row(row)

\* the records of one element of the list the cascade chose
RegionRecords(e) ==
    IF e.tag = "div" /\ IsGridClass(e.cls)
    THEN Flatten(Map(_parse_product_card, e.cards))
    ELSE IF ~LooksLikeAssessmentTable(e) THEN <<>>
    ELSE IF e.rows = <<>> THEN <<>>
    ELSE Flatten(Map(RowParsed, Tail(e.rows)))

AllCards(html) == Flatten([i \in 1..Len(html.elems) |-> html.elems[i].cards]) \o html.loose

\* variant: the cards are looked for before the tables' headers
StrategyCardsFirst(html) ==
    IF SelectSeq(html.elems, IsKnownRegion) # <<>> THEN "known"
    ELSE IF AllCards(html) # <<>> THEN "cards"
    ELSE IF FirstWith(SelectSeq(html.elems, IsTable), 1) # <<>> THEN "headers"
    ELSE "all_tables"

\* which strategy of the cascade supplies the list "tables"
Strategy(html) ==
    IF SelectSeq(html.elems, IsKnownRegion) # <<>> THEN "known"
    ELSE IF FirstWith(SelectSeq(html.elems, IsTable), 1) # <<>> THEN "headers"
    ELSE IF AllCards(html) # <<>> THEN "cards"
    ELSE "all_tables"

\* "tables = [product_cards]" puts a list where an element is expected:
\* the loop's "table.tag" then raises AttributeError
parse_assessment_table(html) ==
    LET s == Strategy(html)
        tables == CASE s = "known" -> SelectSeq(html.elems, IsKnownRegion)
                    [] s = "headers" -> FirstWith(SelectSeq(html.elems, IsTable), 1)
                    [] s = "cards" -> <<>>
                    [] s = "all_tables" -> SelectSeq(html.elems, IsTable)
    IN  IF s = "cards"
        THEN [raised |-> TRUE, records |-> <<>>]
        ELSE [raised |-> FALSE, records |-> Flatten(Map(RegionRecords, tables))]


(***************************************************************************)
(* extract_duration.  A detail page is described by what the code reads    *)
(* from it: elems, for each duration-labelled element the number before    *)
(* "min" in its text, if any; text and meta, for each of the eight         *)
(* patterns the numbers re.findall captures in the page text and in the    *)
(* meta description (meta is None without a meta description); title, the   *)
(* set of the probed terms in the lower-cased heading (None without one).  *)
(***************************************************************************)
NumPatterns == 8

RECURSIVE FirstSome(_)
FirstSome(opts) ==
    IF opts = <<>> THEN None
    ELSE IF Head(opts) # None THEN Head(opts)
    ELSE FirstSome(Tail(opts))

\* the first pattern, in list order, with a match gives its first number
RECURSIVE FirstPattern(_, _)
FirstPattern(hits, i) ==
    IF i > Len(hits) THEN None
    ELSE IF hits[i] # <<>> THEN Some(hits[i][1])
    ELSE FirstPattern(hits, i + 1)

TitleDefault(title) ==
    IF title = None THEN None
    ELSE IF title[1] \cap {"personality", "questionnaire", "behavior"} # {} THEN Some(25)
    ELSE IF title[1] \cap {"ability", "aptitude", "reasoning"} # {} THEN Some(30)
    ELSE IF title[1] \cap {"situational", "judgment"} # {} THEN Some(20)
    ELSE None

\* variant: the meta description is searched before the page text
DurationOfMetaFirst(page) ==
    LET byElem == FirstSome(page.elems)
        byText == FirstPattern(page.text, 1)
        byMeta == IF page.meta = None THEN None ELSE FirstPattern(page.meta[1], 1)
    IN  IF byElem # None THEN byElem
        ELSE IF byMeta # None THEN byMeta
        ELSE IF byText # None THEN byText
        ELSE TitleDefault(page.title)

DurationOf(page) ==
    LET byElem == FirstSome(page.elems)
        byText == FirstPattern(page.text, 1)
        byMeta == IF page.meta = None THEN None ELSE FirstPattern(page.meta[1], 1)
    IN  IF byElem # None THEN byElem
        ELSE IF byText # None THEN byText
        ELSE IF byMeta # None THEN byMeta
        ELSE TitleDefault(page.title)

\* fetched: the result of fetch_with_retry for the detail page
extract_duration(fetched, page) ==
    IF ~fetched.ok THEN None ELSE DurationOf(page)

(***************************************************************************)
(* The first-seen record of every URL, in first-seen order (lines 500-506).*)
(***************************************************************************)
SeenBefore(s, i) == \E j \in 1..(i - 1) : s[j].url = s[i].url

\* variant: no deduplication
KeepAll(s, i) == TRUE

\* variant: the last record of a URL wins
KeepLast(s, i) == ~\E j \in (i + 1)..Len(s) : s[j].url = s[i].url

KeepRecord(s, i) == ~SeenBefore(s, i)

RECURSIVE UniqueFrom(_, _)
UniqueFrom(s, i) ==
    IF i > Len(s) THEN <<>>
    ELSE IF KeepRecord(s, i) THEN <<s[i]>> \o UniqueFrom(s, i + 1)
    ELSE UniqueFrom(s, i + 1)

unique_assessments(s) == UniqueFrom(s, 1)

\* lines 517-519: every record gets the enrichment pass's duration
AssignDurations(recs, durs) ==
    [i \in 1..Len(recs) |-> [recs[i] EXCEPT !.duration = durs[i]]]

(***************************************************************************)
(* load_sample_data.                                                       *)
(***************************************************************************)
SampleUrl(i) == <<"http", "sample", i>>

SampleRecord(i) ==
    [name |-> CASE i = 1 -> "Verify Numerical Reasoning Test"
                [] i = 2 -> "Verify Verbal Reasoning Test"
                [] i = 3 -> "Verify General Ability Test"
                [] i = 4 -> "Work Strengths Questionnaire"
                [] i = 5 -> "ADEPT-15 Personality Assessment",
     url |-> SampleUrl(i),
     remote_testing |-> TRUE,
     adaptive_irt |-> i >= 4,
     duration |-> IF i = 3 THEN Some(36) ELSE Some(25),
     test_type |-> CASE i = 1 -> <<"Ability & Aptitude", "Numerical Reasoning">>
                     [] i = 2 -> <<"Ability & Aptitude", "Verbal Reasoning">>
                     [] i = 3 -> <<"Ability & Aptitude", "Numerical Reasoning",
                                   "Verbal Reasoning", "Inductive Reasoning">>
                     [] i = 4 -> <<"Personality & Behavior">>
                     [] i = 5 -> <<"Personality & Behavior">>]

NumSamples == 5

load_sample_data == [i \in 1..NumSamples |-> SampleRecord(i)]


(***************************************************************************)
(* What the site serves: the inputs of the crawl.                          *)
(***************************************************************************)
Row(name, href) ==
    [link |-> TRUE, name |-> name, href |-> href, ncells |-> 4,
     remote |-> FALSE, adaptive |-> FALSE, type |-> <<>>]

HeaderRow ==
    [link |-> FALSE, name |-> "", href |-> <<>>, ncells |-> 0,
     remote |-> FALSE, adaptive |-> FALSE, type |-> <<>>]

Card(name, href, minutes) ==
    [name |-> name, href |-> href, type |-> None, minutes |-> minutes,
     remote |-> TRUE, adaptive |-> FALSE]

\* rows: a well-formed row for every detail URL, a second version of the
\* first URL under an absolute href, a link without text, a link without
\* href, a first cell without a link
RowPool ==
    {Row("A", <<"rel", "detail", d>>) : d \in 1..NumDetail}
    \cup {Row("B", DetailUrl(1)),
          Row("", <<"rel", "detail", NumDetail>>),
          Row("A", <<>>),
          [Row("A", <<"rel", "detail", 1>>) EXCEPT !.link = FALSE]}

CardPool ==
    {Card("C", DetailUrl(1), Some(30)),
     Card("C", <<"rel", "detail", NumDetail>>, None),
     Card("", <<"rel", "detail", 1>>, None),
     Card("C", <<>>, None)}

StdHeaders == {"name", "remote", "type", "test type"}

TableDoc(rows) ==
    [elems |-> <<[tag |-> "table", cls |-> "products-table", hdr |-> StdHeaders,
                  rows |-> <<HeaderRow>> \o rows, cards |-> <<>>]>>,
     loose |-> <<>>]

GridDoc(cards) ==
    [elems |-> <<[tag |-> "div", cls |-> "product-grid", hdr |-> {},
                  rows |-> <<>>, cards |-> cards]>>,
     loose |-> <<>>]

LooseCardsDoc(cards) == [elems |-> <<>>, loose |-> cards]

\* the documents with at most n rows or cards
Bodies(n) ==
    {TableDoc(rows) : rows \in SeqsUpTo(RowPool, n)}
    \cup {GridDoc(cards) : cards \in SeqsUpTo(CardPool, n) \ {<<>>}}
    \cup {LooseCardsDoc(cards) : cards \in SeqsUpTo(CardPool, Min(n, 1))}

BodySize(doc) ==
    Len(doc.loose) + (IF doc.elems = <<>> THEN 0
                      ELSE Len(doc.elems[1].cards) + Len(doc.elems[1].rows)
                           - (IF doc.elems[1].rows = <<>> THEN 0 ELSE 1))

ALink(href, active) == [href |-> href, active |-> active]

LinkPool ==
    {ALink(<<"rel", "page", i>>, FALSE) : i \in 1..NumPages}
    \cup {ALink(BASE_URL, FALSE),
          ALink(<<"javascript", "void", 0>>, FALSE),
          ALink(<<"rel", "page", 1>>, TRUE)}

ButtonPool == {[data_url |-> <<"rel", "page", NumPages>>]}

NavSize(nav) == Len(nav.links) + Len(nav.buttons)

\* the pagination markup with at most n links and buttons
Navs(n) ==
    {nav \in {[links |-> l, buttons |-> b] :
                l \in SeqsUpTo(LinkPool, Min(n, MaxLinks)), b \in SeqsUpTo(ButtonPool, 1)} :
        NavSize(nav) <= n}


NoHits == [i \in 1..NumPatterns |-> <<>>]

DetailPool ==
    {[elems |-> <<Some(45)>>, text |-> NoHits, meta |-> None, title |-> None],
     [elems |-> <<>>, text |-> NoHits, meta |-> None, title |-> None]}

\* how the end of a crawl with records goes: save_to_json's open or write
\* fails, save_to_csv fails, closing the scraper (__aexit__) fails, or none
SaveOutcomes == {"ok", "json_open_fails", "json_write_fails", "csv_fails", "close_fails"}

(***************************************************************************)
(* The cache file.                                                         *)
(***************************************************************************)
CachedRecord(i) ==
    [name |-> "cached", url |-> <<"http", "cached", i>>, remote_testing |-> FALSE,
     adaptive_irt |-> FALSE, duration |-> None, test_type |-> <<"Unspecified">>]

CacheFile(n, age) ==
    [st |-> "ok", recs |-> [i \in 1..n |-> CachedRecord(i)], age |-> age]

NoCache == [st |-> "absent", recs |-> <<>>, age |-> 0]

\* a file that json.load or Assessment(**a) rejects
CorruptCache(age) == [st |-> "corrupt", recs |-> <<>>, age |-> age]

\* the ages, in seconds, on both sides of the limit
CacheAges == {CACHE_MAX_AGE_DAYS * SECONDS_PER_DAY - 1, CACHE_MAX_AGE_DAYS * SECONDS_PER_DAY}

CacheSizes == {0, CACHE_MIN_RECORDS, CACHE_MIN_RECORDS + 1}

CacheStates ==
    {NoCache, CorruptCache(0)}
    \cup {CacheFile(n, a) : n \in CacheSizes, a \in CacheAges}

\* variant: the number of records is not looked at
CacheFreshAnySize(c) == c.age < CACHE_MAX_AGE_DAYS * SECONDS_PER_DAY

\* variant: a cache of exactly 7 days still counts as fresh
CacheFreshInclusive(c) ==
    /\ Len(c.recs) > CACHE_MIN_RECORDS
    /\ c.age <= CACHE_MAX_AGE_DAYS * SECONDS_PER_DAY

\* line 671: "len(assessments) > 5 and file_age_days < 7", the age being
\* seconds / (60 * 60 * 24)
CacheFresh(c) ==
    /\ Len(c.recs) > CACHE_MIN_RECORDS
    /\ c.age < CACHE_MAX_AGE_DAYS * SECONDS_PER_DAY

\* variant: a file that cannot be loaded ends the call like a hit
CacheHitOrCorrupt(force, c) ==
    /\ ~force
    /\ c.st # "absent"
    /\ (c.st = "corrupt" \/ CacheFresh(c))

\* lines 658-676: the cache is returned
CacheHit(force, c) ==
    /\ ~force
    /\ c.st # "absent"
    /\ c.st = "ok"
    /\ CacheFresh(c)


(***************************************************************************)
(* run_crawl: the module-level scrape_all_shl_assessments, the crawl of    *)
(* SHLScraper.scrape_all_shl_assessments and the recursion of scrape_page. *)
(***************************************************************************)
Frame(url, depth) ==
    [url |-> url, depth |-> depth, st |-> "fetch",
     pagination_urls |-> <<>>, all_assessments |-> <<>>]

Top == stack[Len(stack)]

Pop == SubSeq(stack, 1, Len(stack) - 1)

SetTop(f) == [stack EXCEPT ![Len(stack)] = f]

Returned(records, fresh) == Some([records |-> records, fresh |-> fresh])

\* variant: the flag is set before the fallback
FallbackFresh ==
    /\ result' = Returned(load_sample_data, TRUE)
    /\ pc' = "done"

\* variant: a cache that could be read is returned in place of the sample
FallbackToCache ==
    /\ result' = Returned(IF cache.st = "ok" /\ cache.recs # <<>>
                          THEN cache.recs ELSE load_sample_data, FALSE)
    /\ pc' = "done"

\* lines 693-695: the sample data, freshly_scraped still False
Fallback ==
    /\ result' = Returned(load_sample_data, FALSE)
    /\ pc' = "done"

\* lines 688-695 when __aexit__ raises during the return of line 689:
\* freshly_scraped was already set
FallbackAfterSave ==
    /\ result' = Returned(load_sample_data, TRUE)
    /\ pc' = "done"

\* variant: one level too deep
MayDescendInclusive(depth) == depth <= max_depth

\* "if current_depth < self.max_depth"
MayDescend(depth) == depth < max_depth

\* variant: an error in any page ends the crawl
RaiseAbortsCrawl ==
    /\ stack' = <<>>
    /\ Fallback

\* an exception leaves the innermost scrape_page call: the caller's loop
\* catches it (line 481); from the root call it reaches run_crawl (line 690)
RaiseFromTop ==
    IF Len(stack) = 1
    THEN /\ stack' = <<>>
         /\ Fallback
    ELSE /\ stack' = Pop
         /\ UNCHANGED <<pc, result>>

\* lines 654-682 and 493-498: the cache check, and the start of a crawl
RunCrawl ==
    /\ pc = "idle"
    /\ IF CacheHit(force_refresh, cache)
       THEN /\ result' = Returned(cache.recs, FALSE)
            /\ pc' = "done"
            /\ UNCHANGED <<crawled, processed_urls, stack>>
       ELSE /\ crawled' = TRUE
            /\ \E launched \in BOOLEAN :
                 IF launched
                 THEN /\ processed_urls' = {BASE_URL}
                      /\ stack' = <<Frame(BASE_URL, 0)>>
                      /\ pc' = "scrape"
                      /\ UNCHANGED result
                 ELSE /\ Fallback
                      /\ UNCHANGED <<processed_urls, stack>>
    /\ UNCHANGED <<force_refresh, cache, max_depth, scraped, assessments_dicts,
                   durations, fetchLog, parsedLog, enrichLog, budget, callIn, callOut>>

\* line 461: the fetch of the page of the innermost call
FetchPage ==
    /\ pc = "scrape"
    /\ Top.st = "fetch"
    /\ \E k \in 0..MAX_RETRIES :
         LET fetched == fetch_with_retry(FailFirst(k), NoJitter)
         IN  /\ fetchLog' = Append(fetchLog, [url |-> Top.url, depth |-> Top.depth,
                                              ok |-> fetched.ok])
             /\ IF fetched.ok
                THEN /\ stack' = SetTop([Top EXCEPT !.st = "parse"])
                     /\ UNCHANGED <<pc, result>>
                ELSE RaiseFromTop
    /\ UNCHANGED <<force_refresh, cache, max_depth, crawled, processed_urls, scraped,
                   assessments_dicts, durations, parsedLog, enrichLog, budget,
                   callIn, callOut>>

\* lines 464-468: the records of the fetched markup
ParsePage ==
    /\ pc = "scrape"
    /\ Top.st = "parse"
    /\ \E body \in Bodies(Min(MaxRows, budget.recs)) :
         LET parsed == parse_assessment_table(body)
         IN  /\ budget' = [budget EXCEPT !.recs = @ - BodySize(body)]
             /\ IF parsed.raised
                THEN /\ RaiseFromTop
                     /\ UNCHANGED parsedLog
                ELSE /\ stack' = SetTop([Top EXCEPT !.st = "detect",
                                                    !.all_assessments = parsed.records])
                     /\ parsedLog' = Append(parsedLog, [url |-> Top.url,
                                                        records |-> parsed.records])
                     /\ UNCHANGED <<pc, result>>
    /\ UNCHANGED <<force_refresh, cache, max_depth, crawled, processed_urls, scraped,
                   assessments_dicts, durations, fetchLog, enrichLog, callIn, callOut>>

\* variant: a page without records is not searched for pagination links
DetectPaginationIfRecords ==
    /\ pc = "scrape"
    /\ Top.st = "detect"
    /\ IF MayDescend(Top.depth) /\ Top.all_assessments # <<>>
       THEN \E nav \in Navs(budget.links) :
              /\ stack' = SetTop([Top EXCEPT
                      !.st = "loop",
                      !.pagination_urls = detect_pagination(nav, processed_urls)])
              /\ budget' = [budget EXCEPT !.links = @ - NavSize(nav)]
       ELSE /\ stack' = SetTop([Top EXCEPT !.st = "loop"])
            /\ UNCHANGED budget
    /\ UNCHANGED <<force_refresh, cache, max_depth, pc, crawled, processed_urls,
                   scraped, assessments_dicts, durations, result, fetchLog,
                   parsedLog, enrichLog, callIn, callOut>>

\* lines 469-472: the pagination URLs of the fetched markup
DetectPagination ==
    /\ pc = "scrape"
    /\ Top.st = "detect"
    /\ IF MayDescend(Top.depth)
       THEN \E nav \in Navs(budget.links) :
              /\ stack' = SetTop([Top EXCEPT
                      !.st = "loop",
                      !.pagination_urls = detect_pagination(nav, processed_urls)])
              /\ budget' = [budget EXCEPT !.links = @ - NavSize(nav)]
       ELSE /\ stack' = SetTop([Top EXCEPT !.st = "loop"])
            /\ UNCHANGED budget
    /\ UNCHANGED <<force_refresh, cache, max_depth, pc, crawled, processed_urls,
                   scraped, assessments_dicts, durations, result, fetchLog,
                   parsedLog, enrichLog, callIn, callOut>>

\* variant: the loop does not look at processed_urls
StillNewAlways(u) == TRUE

\* "if pagination_url not in self.processed_urls"
StillNew(u) == u \notin processed_urls

\* variant: the loop does not move past a URL that was already visited
NextPaginationStuck ==
    /\ pc = "scrape"
    /\ Top.st = "loop"
    /\ Top.pagination_urls # <<>>
    /\ LET u == Head(Top.pagination_urls)
           parent == [Top EXCEPT !.pagination_urls = Tail(@)]
       IN  IF StillNew(u)
           THEN /\ processed_urls' = processed_urls \cup {u}
                /\ stack' = Append(SetTop(parent), Frame(u, Top.depth + 1))
           ELSE /\ stack' = stack
                /\ UNCHANGED processed_urls
    /\ UNCHANGED <<force_refresh, cache, max_depth, pc, crawled, scraped,
                   assessments_dicts, durations, result, fetchLog, parsedLog, enrichLog,
                   budget, callIn, callOut>>

\* lines 475-479: one turn of the loop over the pagination URLs
NextPagination ==
    /\ pc = "scrape"
    /\ Top.st = "loop"
    /\ Top.pagination_urls # <<>>
    /\ LET u == Head(Top.pagination_urls)
           parent == [Top EXCEPT !.pagination_urls = Tail(@)]
       IN  IF StillNew(u)
           THEN /\ processed_urls' = processed_urls \cup {u}
                /\ stack' = Append(SetTop(parent), Frame(u, Top.depth + 1))
           ELSE /\ stack' = SetTop(parent)
                /\ UNCHANGED processed_urls
    /\ UNCHANGED <<force_refresh, cache, max_depth, pc, crawled, scraped,
                   assessments_dicts, durations, result, fetchLog, parsedLog, enrichLog,
                   budget, callIn, callOut>>

\* line 484, with line 480 in the caller and lines 500-511 after the root
ReturnPage ==
    /\ pc = "scrape"
    /\ Top.st = "loop"
    /\ Top.pagination_urls = <<>>
    /\ IF Len(stack) = 1
       THEN /\ stack' = <<>>
            /\ scraped' = Top.all_assessments
            /\ assessments_dicts' = unique_assessments(Top.all_assessments)
            /\ durations' = <<>>
            /\ pc' = "enrich"
       ELSE /\ stack' = [Pop EXCEPT ![Len(stack) - 1].all_assessments =
                                        @ \o Top.all_assessments]
            /\ UNCHANGED <<scraped, assessments_dicts, durations, pc>>
    /\ UNCHANGED <<force_refresh, cache, max_depth, crawled, processed_urls, result,
                   fetchLog, parsedLog, enrichLog, budget, callIn, callOut>>

\* variant: the failure of a detail page's fetch leaves extract_duration
EnrichNextAborts ==
    /\ pc = "enrich"
    /\ Len(durations) < Len(assessments_dicts)
    /\ LET a == assessments_dicts[Len(durations) + 1]
       IN  /\ enrichLog' = Append(enrichLog, a.url)
           /\ \E k \in 0..MAX_RETRIES, page \in DetailPool :
                /\ IsAbsolute(a.url) \/ k = MAX_RETRIES
                /\ IF fetch_with_retry(FailFirst(k), NoJitter).ok
                   THEN /\ durations' = Append(durations, DurationOf(page))
                        /\ UNCHANGED <<pc, result>>
                   ELSE /\ Fallback
                        /\ UNCHANGED durations
    /\ UNCHANGED <<force_refresh, cache, max_depth, crawled, processed_urls, stack,
                   scraped, assessments_dicts, fetchLog, parsedLog, budget,
                   callIn, callOut>>

\* lines 512-515: one turn of the enrichment loop, for every record; a URL
\* that is no absolute URL cannot be fetched
EnrichNext ==
    /\ pc = "enrich"
    /\ Len(durations) < Len(assessments_dicts)
    /\ LET a == assessments_dicts[Len(durations) + 1]
       IN  /\ enrichLog' = Append(enrichLog, a.url)
           /\ \E k \in 0..MAX_RETRIES, page \in DetailPool :
                /\ IsAbsolute(a.url) \/ k = MAX_RETRIES
                /\ durations' = Append(durations,
                       extract_duration(fetch_with_retry(FailFirst(k), NoJitter), page))
    /\ UNCHANGED <<force_refresh, cache, max_depth, pc, crawled, processed_urls, stack,
                   scraped, assessments_dicts, result, fetchLog, parsedLog, budget,
                   callIn, callOut>>

\* variant: the file receives the fallback data
SavedFallback(records, outcome) ==
    [st |-> "ok", recs |-> load_sample_data, age |-> 0]

\* save_to_json and save_to_csv, both to the standard file names
Saved(records, outcome) ==
    CASE outcome = "json_open_fails" -> cache
      [] outcome = "json_write_fails" -> CorruptCache(0)
      [] OTHER -> [st |-> "ok", recs |-> records, age |-> 0]

\* lines 517-531 and 684-695: the end of the crawl and of run_crawl
FinishCrawl ==
    /\ pc = "enrich"
    /\ Len(durations) = Len(assessments_dicts)
    /\ LET assessments == AssignDurations(assessments_dicts, durations)
       IN  /\ assessments_dicts' = assessments
           /\ IF assessments # <<>>
              THEN \E outcome \in SaveOutcomes :
                     /\ cache' = Saved(assessments, outcome)
                     /\ CASE outcome = "ok" ->
                               /\ result' = Returned(assessments, TRUE)
                               /\ pc' = "done"
                          [] outcome = "close_fails" -> FallbackAfterSave
                          [] OTHER -> Fallback
              ELSE /\ Fallback
                   /\ UNCHANGED cache
    /\ UNCHANGED <<force_refresh, max_depth, crawled, processed_urls, stack, scraped,
                   durations, fetchLog, parsedLog, enrichLog, budget, callIn, callOut>>

Idle ==
    /\ pc = "idle"
    /\ crawled = FALSE
    /\ processed_urls = {}
    /\ stack = <<>>
    /\ scraped = <<>>
    /\ assessments_dicts = <<>>
    /\ durations = <<>>
    /\ result = None
    /\ fetchLog = <<>>
    /\ parsedLog = <<>>
    /\ enrichLog = <<>>

\* run_crawl as its callers use it: SHLScraper(use_playwright=True), so
\* max_depth has its default
Init ==
    /\ force_refresh \in BOOLEAN
    /\ cache \in CacheStates
    /\ max_depth = DEFAULT_MAX_DEPTH
    /\ budget = [recs |-> RunRecs, links |-> RunLinkTotal]
    /\ Idle
    /\ callIn = [op |-> "none"]
    /\ callOut = None

Next ==
    \/ RunCrawl
    \/ FetchPage
    \/ ParsePage
    \/ DetectPagination
    \/ NextPagination
    \/ ReturnPage
    \/ EnrichNext
    \/ FinishCrawl

Spec == Init /\ [][Next]_vars

\* a crawl of a scraper constructed with any max_depth, without a cache
InitCrawl ==
    /\ force_refresh = TRUE
    /\ cache = NoCache
    /\ max_depth \in 0..MaxMaxDepth
    /\ budget = [recs |-> MaxRecs, links |-> MaxLinkTotal]
    /\ Idle
    /\ callIn = [op |-> "none"]
    /\ callOut = None

SpecCrawl == InitCrawl /\ [][Next]_vars

\* the same crawl when the event loop keeps running the one coroutine: every
\* await (a fetch attempt, a back-off sleep) ends, by an answer or a timeout
SpecCrawlFair == InitCrawl /\ [][Next]_vars /\ WF_vars(Next)

\* fetch_with_retry alone, for every sequence of attempt outcomes
InitFetchSpec ==
    /\ InitFetch
    /\ force_refresh = FALSE
    /\ cache = NoCache
    /\ max_depth = DEFAULT_MAX_DEPTH
    /\ budget = [recs |-> 0, links |-> 0]
    /\ Idle

NextFetch == CallFetch /\ UNCHANGED crawlVars

SpecFetch == InitFetchSpec /\ [][NextFetch]_vars


(***************************************************************************)
(* The record extractor alone: _parse_table_row, _parse_product_card and   *)
(* parse_assessment_table, called on markup of their own while the crawl   *)
(* state they could see changes.                                           *)
(***************************************************************************)
TypeAlphabet == {"A", "P", "x", ",", " "}

TypeTexts == SeqsUpTo(TypeAlphabet, MaxTypeLen) \cup {<<"X", "y", "z">>}

RowInputs ==
    {[Row(name, href) EXCEPT !.type = t, !.link = l] :
        name \in {"A", "Java", ""},
        href \in {<<"rel", "detail", 1>>, <<>>},
        t \in TypeTexts,
        l \in BOOLEAN}

CardInputs ==
    {[Card(name, href, minutes) EXCEPT !.type = ty] :
        name \in {"C", ""},
        href \in {DetailUrl(1), <<"rel", "detail", 1>>, <<>>},
        minutes \in {None, Some(30)},
        ty \in {None} \cup {Some(t) : t \in SeqsUpTo({"x", ",", " "}, MaxCardTypeLen)}}

\* a table outside the known classes, with the header words hdr
PlainTable(hdr, rows) ==
    [elems |-> <<[tag |-> "table", cls |-> "", hdr |-> hdr,
                  rows |-> <<HeaderRow>> \o rows, cards |-> <<>>]>>,
     loose |-> <<>>]

TableElem(cls, hdr, rows) ==
    [tag |-> "table", cls |-> cls, hdr |-> hdr,
     rows |-> <<HeaderRow>> \o rows, cards |-> <<>>]

\* header rows, by the probed words their joined text contains
HdrPool ==
    {{}, {"name", "type"}, {"product", "type"}, {"name", "online"},
     {"product"}, {"assessment", "duration"}}

\* two tables, the first one possibly of a known class or without data
\* rows, and possibly a card outside them
MixedDocs ==
    {[elems |-> <<TableElem(c1, h1, rows1),
                  TableElem("", h2, <<Row("B", <<"rel", "detail", NumDetail>>)>>)>>,
      loose |-> l] :
        c1 \in {"", "products-table"},
        h1 \in HdrPool,
        h2 \in HdrPool,
        rows1 \in {<<>>, <<Row("A", <<"rel", "detail", 1>>)>>},
        l \in {<<>>, <<Card("C", DetailUrl(1), None)>>}}

DocInputs ==
    MixedDocs
    \cup {TableDoc(rows) : rows \in SeqsUpTo(RowPool, 1)}
    \cup {GridDoc(<<c>>) : c \in CardPool}
    \cup {LooseCardsDoc(cards) : cards \in SeqsUpTo(CardPool, 1)}
    \cup {PlainTable(hdr, <<r>>) :
            hdr \in {{}, {"name", "type"}, {"product"}, {"name"}},
            r \in {Row("A", <<"rel", "detail", 1>>), Row("B", DetailUrl(1))}}

InitExtract ==
    /\ callIn \in {[op |-> "_parse_table_row", row |-> r] : r \in RowInputs}
               \cup {[op |-> "_parse_product_card", card |-> c] : c \in CardInputs}
               \cup {[op |-> "parse_assessment_table", html |-> d, other |-> o] :
                       d \in DocInputs,
                       o \in {TableDoc(<<>>), GridDoc(<<Card("C", DetailUrl(1), None)>>)}}
    /\ callOut = None

CallParseRow ==
    /\ callIn.op = "_parse_table_row"
    /\ callOut = None
    /\ callOut' = Some(_parse_table_row(callIn.row))
    /\ UNCHANGED <<callIn, processed_urls>>

CallParseCard ==
    /\ callIn.op = "_parse_product_card"
    /\ callOut = None
    /\ callOut' = Some(_parse_product_card(callIn.card))
    /\ UNCHANGED <<callIn, processed_urls>>

\* a call of parse_assessment_table, on the markup under test or on another
\* markup; callOut lists the calls made with their results
CallParse ==
    /\ callIn.op = "parse_assessment_table"
    /\ Len(callOut) < 3
    /\ \E html \in {callIn.html, callIn.other} :
         callOut' = Append(callOut, [html |-> html,
                                     result |-> parse_assessment_table(html)])
    /\ UNCHANGED <<callIn, processed_urls>>

\* lines 476-477, between two calls of the extractor
MarkProcessed ==
    /\ callIn.op = "parse_assessment_table"
    /\ \E i \in 1..NumPages :
         /\ <<"http", "page", i>> \notin processed_urls
         /\ processed_urls' = processed_urls \cup {<<"http", "page", i>>}
    /\ UNCHANGED <<callIn, callOut>>

extractFrame == <<force_refresh, cache, max_depth, pc, crawled, stack, scraped,
                  assessments_dicts, durations, result, fetchLog, parsedLog,
                  enrichLog, budget>>

InitExtractSpec ==
    /\ InitExtract
    /\ force_refresh = FALSE
    /\ cache = NoCache
    /\ max_depth = DEFAULT_MAX_DEPTH
    /\ budget = [recs |-> 0, links |-> 0]
    /\ Idle

NextExtract ==
    /\ \/ CallParseRow
       \/ CallParseCard
       \/ CallParse
       \/ MarkProcessed
    /\ UNCHANGED extractFrame

SpecExtract == InitExtractSpec /\ [][NextExtract]_vars


(***************************************************************************)
(* extract_duration alone.  The text of a detail page is the sequence of   *)
(* its number-bearing phrases, each of a kind and with its number n:       *)
(* "n minutes", "n min", "Duration: n", "Time: n", "approximately n",      *)
(* "takes n min", "completed in n", "length: n".                           *)
(***************************************************************************)
PhraseKinds == {"minutes", "min", "Duration:", "Time:", "approximately",
                "takes min", "completed in", "length:"}

\* pattern i of duration_patterns matches a phrase of this kind
PatternMatches(i, kind) ==
    CASE i = 1 -> kind = "minutes"
      [] i = 2 -> kind \in {"minutes", "min", "takes min"}
      [] i = 3 -> kind = "Duration:"
      [] i = 4 -> kind = "Time:"
      [] i = 5 -> kind = "approximately"
      [] i = 6 -> kind = "takes min"
      [] i = 7 -> kind = "completed in"
      [] i = 8 -> kind = "length:"

\* re.findall(pattern i, text): the numbers of the matching phrases, in
\* the order of the text
RECURSIVE FindAll(_, _)
FindAll(i, phrases) ==
    IF phrases = <<>> THEN <<>>
    ELSE IF PatternMatches(i, Head(phrases).kind)
    THEN <<Head(phrases).n>> \o FindAll(i, Tail(phrases))
    ELSE FindAll(i, Tail(phrases))

PatternHits(phrases) == [i \in 1..NumPatterns |-> FindAll(i, phrases)]

Phrase(kind, n) == [kind |-> kind, n |-> n]

PhrasePool ==
    {Phrase(k, 30) : k \in PhraseKinds}
    \cup {Phrase("min", 0), Phrase("Duration:", 45)}

DurElemPool ==
    SeqsUpTo({None, Some(45)}, MaxDurElems) \cup {<<Some(0)>>}

MetaPool == {None, Some(<<>>), Some(<<Phrase("approximately", 15)>>)}

TitlePool ==
    {None, Some({}), Some({"personality", "questionnaire"}), Some({"reasoning"}),
     Some({"situational", "judgment"}), Some({"situational", "reasoning"})}

\* the detail page as extract_duration reads it
DetailPage(in) ==
    [elems |-> in.elems,
     text |-> PatternHits(in.phrases),
     meta |-> IF in.meta = None THEN None ELSE Some(PatternHits(in.meta[1])),
     title |-> in.title]

InitDuration ==
    /\ callIn \in {[op |-> "extract_duration", fails |-> k, elems |-> e,
                    phrases |-> ph, meta |-> m, title |-> t] :
                     k \in {0, MAX_RETRIES},
                     e \in DurElemPool,
                     ph \in SeqsUpTo(PhrasePool, MaxPhrases),
                     m \in MetaPool,
                     t \in TitlePool}
    /\ callOut = None

CallExtractDuration ==
    /\ callIn.op = "extract_duration"
    /\ callOut = None
    /\ callOut' = Some(extract_duration(fetch_with_retry(FailFirst(callIn.fails), NoJitter),
                                        DetailPage(callIn)))
    /\ UNCHANGED callIn

InitDurationSpec ==
    /\ InitDuration
    /\ force_refresh = FALSE
    /\ cache = NoCache
    /\ max_depth = DEFAULT_MAX_DEPTH
    /\ budget = [recs |-> 0, links |-> 0]
    /\ Idle

NextDuration == CallExtractDuration /\ UNCHANGED crawlVars

SpecDuration == InitDurationSpec /\ [][NextDuration]_vars


(***************************************************************************)
(* A second crawl after a first one: scrape_all_shl_assessments is called  *)
(* again, on the scraper of the first crawl or on a new one.  callOut      *)
(* keeps what the first crawl left behind.                                 *)
(***************************************************************************)
\* variant: the visited set of the first crawl is kept
SeedVisitedKept == processed_urls \cup {BASE_URL}

\* lines 494-497 (and line 52 for a new scraper)
SeedVisited == {BASE_URL}

\* lines 493-498, when a crawl has ended before
CrawlAgain ==
    /\ callIn.op = "crawl_again"
    /\ pc = "done"
    /\ crawled
    /\ callOut = <<>>
    /\ callOut' = <<[visited |-> processed_urls,
                     accumulated |-> scraped,
                     records |-> result[1].records]>>
    /\ processed_urls' = SeedVisited
    /\ stack' = <<Frame(BASE_URL, 0)>>
    /\ pc' = "scrape"
    /\ result' = None
    /\ scraped' = <<>>
    /\ assessments_dicts' = <<>>
    /\ durations' = <<>>
    /\ fetchLog' = <<>>
    /\ parsedLog' = <<>>
    /\ enrichLog' = <<>>
    /\ budget' = [recs |-> RunRecs, links |-> RunLinkTotal]
    /\ UNCHANGED <<force_refresh, cache, max_depth, crawled, callIn>>

InitRepeat ==
    /\ force_refresh = TRUE
    /\ cache = NoCache
    /\ max_depth = DEFAULT_MAX_DEPTH
    /\ budget = [recs |-> RunRecs, links |-> RunLinkTotal]
    /\ Idle
    /\ callIn = [op |-> "crawl_again"]
    /\ callOut = <<>>

NextRepeat ==
    \/ Next
    \/ CrawlAgain

SpecRepeat == InitRepeat /\ [][NextRepeat]_vars


(***************************************************************************)
(* Two invocations of run_crawl on one event loop.  The variables hold the *)
(* state of the invocation that is running, callOut the state of the one   *)
(* that is suspended at an await: its scraper (line 681) and its locals.   *)
(* The cache file is the one thing both see.                               *)
(***************************************************************************)
\* the crawl state of the running invocation
OwnState ==
    [pc |-> pc, crawled |-> crawled, processed_urls |-> processed_urls,
     stack |-> stack, scraped |-> scraped, assessments_dicts |-> assessments_dicts,
     durations |-> durations, result |-> result, fetchLog |-> fetchLog,
     parsedLog |-> parsedLog, enrichLog |-> enrichLog, budget |-> budget]

\* variant: the visited set is one set for all scrapers
SharedVisited(other) == processed_urls

\* self.processed_urls of the invocation that resumes (line 52: one set
\* for each scraper)
ResumedVisited(other) == other.processed_urls

\* the running invocation is at an await or has returned
AtSuspensionPoint ==
    \/ pc = "scrape" /\ Top.st = "fetch"
    \/ pc = "enrich" /\ Len(durations) < Len(assessments_dicts)
    \/ pc = "done"

\* the event loop resumes the other invocation
Switch ==
    /\ callIn.op = "two_crawls"
    /\ AtSuspensionPoint
    /\ callOut[1].pc # "done"
    /\ callOut' = Some(OwnState)
    /\ pc' = callOut[1].pc
    /\ crawled' = callOut[1].crawled
    /\ processed_urls' = ResumedVisited(callOut[1])
    /\ stack' = callOut[1].stack
    /\ scraped' = callOut[1].scraped
    /\ assessments_dicts' = callOut[1].assessments_dicts
    /\ durations' = callOut[1].durations
    /\ result' = callOut[1].result
    /\ fetchLog' = callOut[1].fetchLog
    /\ parsedLog' = callOut[1].parsedLog
    /\ enrichLog' = callOut[1].enrichLog
    /\ budget' = callOut[1].budget
    /\ UNCHANGED <<force_refresh, cache, max_depth, callIn>>

InitPair ==
    /\ force_refresh = TRUE
    /\ cache = NoCache
    /\ max_depth = DEFAULT_MAX_DEPTH
    /\ budget = [recs |-> RunRecs, links |-> RunLinkTotal]
    /\ Idle
    /\ callIn = [op |-> "two_crawls"]
    /\ callOut = Some(OwnState)

NextPair ==
    \/ Next
    \/ Switch

SpecPair == InitPair /\ [][NextPair]_vars


(***************************************************************************)
(* Claims.                                                                 *)
(***************************************************************************)
Done == pc = "done"

TheResult == result[1]

Urls(recs) == [i \in 1..Len(recs) |-> recs[i].url]

Distinct(s) == \A i, j \in 1..Len(s) : i # j => s[i] # s[j]

NoDuration(rec) == [rec EXCEPT !.duration = None]

AllParsed == Flatten([i \in 1..Len(parsedLog) |-> parsedLog[i].records])

\* C1: run_crawl always returns, whatever force_refresh, the cache and the
\* crawl's outcome are, and what it returns is a non-empty list of records:
\* no state before the return is stuck, and every returned list has a record.
C1_AlwaysNonEmptyResult ==
    /\ Done => result # None /\ Len(TheResult.records) > 0
    /\ ~Done => result = None /\ ENABLED Next

\* a crawl found records and persisting them failed: the sample is returned
C1_Witness ==
    /\ Done
    /\ crawled
    /\ assessments_dicts # <<>>
    /\ ~TheResult.fresh
    /\ cache.st = "corrupt"
    /\ ~force_refresh

\* C2: when a crawl was attempted and the fetch of the catalog root failed
\* on all retries, run_crawl returns the five sample records, in order, and
\* was_freshly_crawled = false.
C2_RootFailureGivesSample ==
    (Done /\ crawled /\ fetchLog # <<>> /\ ~fetchLog[1].ok) =>
        /\ Len(TheResult.records) = 5
        /\ \A i \in 1..5 : TheResult.records[i] = SampleRecord(i)
        /\ TheResult.fresh = FALSE

C2_Witness ==
    /\ Done
    /\ crawled
    /\ fetchLog = <<[url |-> BASE_URL, depth |-> 0, ok |-> FALSE]>>
    /\ Len(TheResult.records) = 5
    /\ cache.st = "ok"

\* the freshness policy, in the claim's words
C3_Reusable ==
    /\ ~force_refresh
    /\ cache.st = "ok"
    /\ Len(cache.recs) > 5
    /\ cache.age < 7 * 86400

\* C3: the call returns the cached records without crawling, and with
\* was_freshly_crawled = false, exactly when force_refresh is false and the
\* cache is readable, has more than 5 records and is less than 7 days old;
\* in every other case a crawl is attempted.
C3_CacheReusedIff ==
    [][(pc = "idle" /\ pc' # "idle") =>
          /\ crawled' <=> ~C3_Reusable
          /\ ~crawled' <=> (pc' = "done" /\ result' = Returned(cache.recs, FALSE)
                            /\ fetchLog' = <<>>)]_vars

\* a cache one second younger than 7 days with 6 records is returned
C3_Witness ==
    /\ Done
    /\ ~crawled
    /\ Len(TheResult.records) = 6
    /\ cache.age = 7 * 86400 - 1

\* C4: the URLs of the records in a crawl's output are pairwise distinct.
C4_OutputUrlsDistinct ==
    /\ pc \in {"enrich", "done"} => Distinct(Urls(assessments_dicts))
    /\ (Done /\ TheResult.fresh) => Distinct(Urls(TheResult.records))

\* two raw records shared a URL, and the crawl's output was returned
C4_Witness ==
    /\ Done
    /\ TheResult.fresh
    /\ ~Distinct(Urls(scraped))
    /\ Len(TheResult.records) >= 2

\* the first of the raw records with the URL of raw record i
FirstIndex(s, i) == CHOOSE j \in 1..i : s[j].url = s[i].url /\ \A k \in 1..(j - 1) : s[k].url # s[i].url

\* C5: the accumulator holds the records of the parsed pages in the order of
\* their parsing (a page before the pages it links to, these in discovery
\* order), and of the raw records sharing a URL the output holds the first
\* one, and only it, in first-seen order (durations left aside, which the
\* enrichment pass sets).
C5_FirstSeenWins ==
    pc \in {"enrich", "done"} =>
        /\ scraped = AllParsed
        /\ \A i \in 1..Len(scraped) :
             \E k \in 1..Len(assessments_dicts) :
                /\ NoDuration(assessments_dicts[k]) = NoDuration(scraped[FirstIndex(scraped, i)])
                /\ \A m \in 1..Len(assessments_dicts) :
                     assessments_dicts[m].url = scraped[i].url => m = k
        /\ \A k \in 1..Len(assessments_dicts) :
             \E i \in 1..Len(scraped) :
                /\ FirstIndex(scraped, i) = i
                /\ NoDuration(assessments_dicts[k]) = NoDuration(scraped[i])
        /\ \A k, m \in 1..Len(assessments_dicts) :
             \A i, j \in 1..Len(scraped) :
                (k < m /\ FirstIndex(scraped, i) = i /\ FirstIndex(scraped, j) = j
                 /\ assessments_dicts[k].url = scraped[i].url
                 /\ assessments_dicts[m].url = scraped[j].url) => i < j

\* the root yields 2 records, a second page 1 record that shares its URL
\* with a root record and differs from it: the output is the root's 2
C5_Witness ==
    /\ Done
    /\ TheResult.fresh
    /\ Len(parsedLog) = 2
    /\ Len(parsedLog[1].records) = 2
    /\ Len(parsedLog[2].records) = 1
    /\ parsedLog[2].records[1].url = parsedLog[1].records[1].url
    /\ parsedLog[2].records[1].name # parsedLog[1].records[1].name
    /\ Len(TheResult.records) = 2
    /\ \A i \in 1..2 : NoDuration(TheResult.records[i]) = NoDuration(parsedLog[1].records[i])

\* C6: every record of a crawl's output has a non-empty name and an
\* absolute URL.
C6_OutputNamedAndAbsolute ==
    (Done /\ TheResult.fresh) =>
        \A i \in 1..Len(TheResult.records) :
            /\ TheResult.records[i].name # ""
            /\ IsAbsolute(TheResult.records[i].url)

\* C7: every listing-page fetch is issued at a depth from 0 to max_depth.
C7_DepthBounded ==
    \A i \in 1..Len(fetchLog) :
        /\ fetchLog[i].depth >= 0
        /\ fetchLog[i].depth <= max_depth
        /\ (fetchLog[i].depth = 0) <=> (i = 1)

\* a page at the deepest level was fetched, and the crawl went on
C7_Witness ==
    /\ max_depth >= 1
    /\ max_depth < NumPages
    /\ \E i \in 1..Len(fetchLog) : fetchLog[i].depth = max_depth /\ fetchLog[i].ok
    /\ pc = "enrich"

\* C8: with at most 5 attempts, k <= 4 failures followed by a success give
\* the success after exactly k + 1 attempts; 5 failures give an error after
\* exactly 5 attempts, whatever a 6th attempt would have given.
C8_RetryCount ==
    callOut # None =>
        LET r == callOut[1]
            o == callIn.outcomes
        IN  /\ r.attempts <= 5
            /\ \A k \in 0..4 :
                 ((\A i \in 1..k : ~o[i]) /\ o[k + 1]) =>
                     (r.ok /\ ~r.raised /\ r.attempts = k + 1)
            /\ (\A i \in 1..5 : ~o[i]) => (~r.ok /\ r.raised /\ r.attempts = 5)

\* 4 failures, then the success on the 5th attempt
C8_Witness ==
    /\ callOut # None
    /\ \A i \in 1..4 : ~callIn.outcomes[i]
    /\ callIn.outcomes[5]
    /\ callOut[1].ok
    /\ callOut[1].attempts = 5

\* C9: the delay after failed attempt number attempt is
\* min(max_delay, base_delay * 2^attempt) times a factor in [0.5, 1.0): it
\* is at least half the capped value and below it, so never above
\* max_delay = 10 s.  (Delays are in units of 1 / DelayScale seconds.)
C9_DelayCapped ==
    callOut # None =>
        \A i \in 1..Len(callOut[1].delays) :
            LET capped == Min(10, 2 * Pow2(i - 1))
                delay == callOut[1].delays[i]
            IN  /\ 2 * delay >= capped * DelayScale
                /\ delay < capped * DelayScale
                /\ delay <= 10 * DelayScale

\* C10: within one crawl no URL is fetched as a listing page twice, and a
\* URL is in processed_urls before its fetch starts.
C10_NoRefetch ==
    /\ Distinct([i \in 1..Len(fetchLog) |-> fetchLog[i].url])
    /\ \A i \in 1..Len(stack) : stack[i].url \in processed_urls
    /\ \A i \in 1..Len(fetchLog) : fetchLog[i].url \in processed_urls
    /\ pc \in {"scrape", "enrich"} => BASE_URL \in processed_urls

\* back in the root's loop, the next URL was meanwhile fetched from the
\* page that the root linked to first
C10_Witness ==
    /\ pc = "scrape"
    /\ Len(stack) = 1
    /\ Top.st = "loop"
    /\ Top.pagination_urls # <<>>
    /\ Head(Top.pagination_urls) \in processed_urls
    /\ \E i \in 1..Len(fetchLog) :
         fetchLog[i].url = Head(Top.pagination_urls) /\ fetchLog[i].depth = 2

\* the pagination URLs that some active scrape_page call has still to loop over
Owed == UNION {{stack[i].pagination_urls[j] : j \in 1..Len(stack[i].pagination_urls)} :
                 i \in 1..Len(stack)}

\* the step is the fetch of a page other than the root, failing on all retries
C11_FailedFetch ==
    /\ pc = "scrape"
    /\ Len(stack) > 1
    /\ Top.st = "fetch"
    /\ Len(fetchLog') = Len(fetchLog) + 1
    /\ ~fetchLog'[Len(fetchLog')].ok

\* C11: when the fetch of a non-root page fails after all retries, the page
\* contributes no records and the crawl goes on in the parent's loop, the
\* parent's accumulated records and its remaining pagination URLs untouched;
\* no discovered URL is dropped before it is visited, a visited URL is
\* fetched next, and when the root returns no URL is left over and the
\* accumulator holds the records of every parsed page.
C11_FailedPageIsLocal ==
    /\ [][/\ C11_FailedFetch =>
               /\ stack' = Pop
               /\ pc' = "scrape"
               /\ result' = None
               /\ parsedLog' = parsedLog
               /\ processed_urls' = processed_urls
          /\ (pc = "scrape" /\ pc' = "scrape") => Owed \subseteq (Owed' \cup processed_urls')
          /\ (pc = "scrape" /\ pc' = "enrich") => (Owed = {} /\ scraped' = AllParsed')
          /\ (pc = "scrape" /\ processed_urls' # processed_urls) =>
               \E u \in Owed : /\ processed_urls' = processed_urls \cup {u}
                               /\ stack'[Len(stack')].url = u
                               /\ stack'[Len(stack')].st = "fetch"
          /\ (pc = "scrape" /\ Top.st = "fetch" /\ stack' # stack) =>
               /\ Len(fetchLog') = Len(fetchLog) + 1
               /\ fetchLog'[Len(fetchLog')].url = Top.url]_vars

\* the root linked to two pages: the fetch of the first failed, the second
\* was fetched and parsed, and the root's and the second page's records are
\* both in the accumulator
C11_Witness ==
    /\ pc = "enrich"
    /\ Len(fetchLog) = 3
    /\ fetchLog[2].depth = 1 /\ ~fetchLog[2].ok
    /\ fetchLog[3].depth = 1 /\ fetchLog[3].ok
    /\ Len(parsedLog) = 2
    /\ parsedLog[1].records # <<>>
    /\ parsedLog[2].records # <<>>
    /\ scraped = parsedLog[1].records \o parsedLog[2].records

\* C12: the crawl is left without a result of its own (the scraping phase
\* ends in the return of run_crawl) only when the fetch of the catalog root
\* failed; no failure while fetching or parsing any page, the root's parsing
\* included, does that.
C12_OnlyRootFetchAborts ==
    [][(pc = "scrape" /\ pc' = "done") =>
          /\ Len(fetchLog') = 1
          /\ fetchLog' # fetchLog
          /\ ~fetchLog'[1].ok]_vars

\* C13: extract_duration is called only for deduplicated records whose
\* duration is unset after extraction.
C13_EnrichOnlyUnset ==
    pc = "enrich" =>
        \A i \in 1..Len(enrichLog) : assessments_dicts[i].duration = None

\* C14: a duration set during extraction is the duration of the output record.
C14_ExtractedDurationKept ==
    (Done /\ TheResult.fresh) =>
        \A k \in 1..Len(TheResult.records) :
            \A i \in 1..Len(scraped) :
                (/\ FirstIndex(scraped, i) = i
                 /\ scraped[i].url = TheResult.records[k].url
                 /\ scraped[i].duration # None)
                    => TheResult.records[k].duration = scraped[i].duration

\* C15: every record the extractor produces, from a row or from a card, has
\* at least one category, and exactly "Unspecified" when there is no
\* category signal (an empty type cell under a name without a technology
\* keyword, a card without a type element).
C15_AtLeastOneCategory ==
    (callOut # None /\ callIn.op \in {"_parse_table_row", "_parse_product_card"}
     /\ callOut[1] # None) =>
        LET rec == callOut[1][1]
            nosignal == IF callIn.op = "_parse_table_row"
                        THEN Strip(callIn.row.type) = <<>> /\ callIn.row.name \notin TechNames
                        ELSE callIn.card.type = None
        IN  /\ Len(rec.test_type) >= 1
            /\ nosignal => rec.test_type = <<"Unspecified">>

\* the labels of the code letters of a text, in the order of the text
RECURSIVE C18_Labels(_)
C18_Labels(text) ==
    IF text = <<>> THEN <<>>
    ELSE IF Head(text) \in {"A", "B", "C", "D", "E", "K", "P", "S"}
    THEN <<type_map(Head(text))>> \o C18_Labels(Tail(text))
    ELSE C18_Labels(Tail(text))

\* the resolution of a category cell as C18 words it
C18_Resolved(text) ==
    IF C18_Labels(text) # <<>> THEN C18_Labels(text)
    ELSE IF \E i \in 1..Len(text) : text[i] = ","
    THEN [i \in 1..Len(SplitComma(text, <<>>)) |-> Str(Strip(SplitComma(text, <<>>)[i]))]
    ELSE <<Str(text)>>

\* the row of the call is one C18 speaks of, and its record was produced
C18_Case ==
    /\ callOut # None
    /\ callIn.op = "_parse_table_row"
    /\ callOut[1] # None
    /\ callIn.row.name \notin TechNames

\* C18 as stated: code letters give their labels in cell order; without a
\* code letter the comma-split parts, or else the whole cell as one category.
C18_CellResolution ==
    C18_Case => callOut[1][1].test_type = C18_Resolved(Strip(callIn.row.type))

\* C18, amended: the same for a cell with text; a cell without text gives
\* the one category "Unspecified".
C18_CellResolutionNonEmpty ==
    C18_Case =>
        LET text == Strip(callIn.row.type)
        IN  callOut[1][1].test_type =
                IF text = <<>> THEN <<"Unspecified">> ELSE C18_Resolved(text)

\* "AP" gave the two labels
C18_Witness ==
    /\ C18_Case
    /\ callIn.row.type = <<"A", "P">>
    /\ callOut[1][1].test_type = <<"Ability & Aptitude", "Personality & Behavior">>

C16_DurationPositive ==
    (callOut # None /\ callIn.op = "extract_duration") =>
        (callOut[1] = None \/ callOut[1][1] > 0)

\* the number of the first phrase, in text order, that the first pattern,
\* in list order, with a match in the phrases matches
C17_ByPatterns(phrases) ==
    IF \E p \in 1..8, i \in 1..Len(phrases) : PatternMatches(p, phrases[i].kind)
    THEN LET p == CHOOSE q \in 1..8 :
                    /\ \E i \in 1..Len(phrases) : PatternMatches(q, phrases[i].kind)
                    /\ \A r \in 1..(q - 1) : \A i \in 1..Len(phrases) :
                          ~PatternMatches(r, phrases[i].kind)
             i == CHOOSE j \in 1..Len(phrases) :
                    /\ PatternMatches(p, phrases[j].kind)
                    /\ \A k \in 1..(j - 1) : ~PatternMatches(p, phrases[k].kind)
         IN  Some(phrases[i].n)
    ELSE None

\* C17: the sources are applied in fixed order, the first that gives a
\* value wins: the duration-labelled elements, the pattern list over the
\* page text, the pattern list over the meta description, the title
\* heuristic (personality 25, ability 30, situational judgment 20), else
\* absent; with the three examples of the claim.
C17_SourceOrder ==
    (callOut # None /\ callIn.op = "extract_duration" /\ callIn.fails < 5) =>
        LET r == callOut[1]
            withNumber == {i \in 1..Len(callIn.elems) : callIn.elems[i] # None}
            byText == C17_ByPatterns(callIn.phrases)
            byMeta == IF callIn.meta = None THEN None ELSE C17_ByPatterns(callIn.meta[1])
            terms == IF callIn.title = None THEN {} ELSE callIn.title[1]
        IN  /\ IF withNumber # {}
               THEN r = callIn.elems[CHOOSE i \in withNumber : \A j \in withNumber : i <= j]
               ELSE IF byText # None THEN r = byText
               ELSE IF byMeta # None THEN r = byMeta
               ELSE IF terms \cap {"personality", "questionnaire", "behavior"} # {} THEN r = <<25>>
               ELSE IF terms \cap {"ability", "aptitude", "reasoning"} # {} THEN r = <<30>>
               ELSE IF terms \cap {"situational", "judgment"} # {} THEN r = <<20>>
               ELSE r = None
            /\ (withNumber = {} /\ callIn.phrases = <<Phrase("Duration:", 45)>>) => r = <<45>>
            /\ (withNumber = {} /\ callIn.phrases = <<>> /\ callIn.meta = None
                /\ callIn.title = Some({"personality", "questionnaire"})) => r = <<25>>
            /\ (withNumber = {} /\ callIn.phrases = <<>> /\ callIn.meta = None
                /\ callIn.title = Some({"situational", "judgment"})) => r = <<20>>

\* "Duration: 45" after a phrase no pattern before the third matches, under
\* a duration element without a number, a meta description and a title that
\* would give other values: 45
C17_Witness ==
    /\ callOut = Some(Some(45))
    /\ callIn.op = "extract_duration"
    /\ callIn.elems = <<None>>
    /\ callIn.phrases = <<Phrase("length:", 30), Phrase("Duration:", 45)>>
    /\ callIn.meta = Some(<<Phrase("approximately", 15)>>)
    /\ callIn.title = Some({"personality", "questionnaire"})

\* C19: the step of detect_pagination leaves processed_urls as it is and
\* returns only URLs that are not in it; processed_urls changes only at the
\* start of the crawl (the root) and in the loop of scrape_page, which adds
\* the one URL it is about to recurse into, before that page's fetch.
C19_DiscovererLeavesVisited ==
    [][/\ (pc = "scrape" /\ Top.st = "detect") =>
            /\ processed_urls' = processed_urls
            /\ \A j \in 1..Len(stack'[Len(stack')].pagination_urls) :
                 stack'[Len(stack')].pagination_urls[j] \notin processed_urls
       /\ (processed_urls' # processed_urls) =>
            \/ pc = "idle" /\ processed_urls' = {BASE_URL}
            \/ /\ pc = "scrape"
               /\ Top.st = "loop"
               /\ Len(stack') = Len(stack) + 1
               /\ processed_urls' = processed_urls \cup {stack'[Len(stack')].url}
               /\ stack'[Len(stack')].st = "fetch"
               /\ fetchLog' = fetchLog]_vars

\* on a page other than the root, with two URLs visited, the discoverer
\* returned URLs, none of them visited
C19_Witness ==
    /\ pc = "scrape"
    /\ Len(stack) = 2
    /\ Top.st = "loop"
    /\ Cardinality(processed_urls) = 2
    /\ Len(Top.pagination_urls) = 2
    /\ \A j \in 1..2 : Top.pagination_urls[j] \notin processed_urls

\* C21: every crawl terminates: whatever the pages link to (themselves and
\* the root included) and whichever fetches fail, the traversal and the
\* enrichment pass come to an end and run_crawl returns.
C21_CrawlTerminates == <>Done

\* the root served three links and buttons of which only one led to a new
\* page (the others were self-links, repeated or unusable), the fetch of
\* that page failed, a record was enriched, and run_crawl has returned
C21_Witness ==
    /\ Done
    /\ budget.links = 0
    /\ Len(fetchLog) = 2
    /\ ~fetchLog[2].ok
    /\ Cardinality(processed_urls) = 2
    /\ enrichLog # <<>>

\* C22: every crawl starts with the visited set {catalog root}; during a
\* crawl the visited set holds, besides the root, only URLs this crawl has
\* fetched or is about to fetch, so a URL an earlier crawl visited is
\* fetched again; and the accumulator and the output of a crawl hold only
\* records of pages this crawl parsed.
C22_NoStateAcrossCrawls ==
    /\ [][(pc # "scrape" /\ pc' = "scrape") =>
            /\ processed_urls' = {BASE_URL}
            /\ Len(stack') = 1
            /\ stack'[1].all_assessments = <<>>
            /\ fetchLog' = <<>>]_vars
    /\ [](pc \in {"scrape", "enrich"} =>
            \A u \in processed_urls :
                \/ u = BASE_URL
                \/ \E i \in 1..Len(fetchLog) : fetchLog[i].url = u
                \/ \E i \in 1..Len(stack) : stack[i].url = u /\ stack[i].st = "fetch")
    /\ [](pc = "enrich" => scraped = AllParsed)
    /\ [](pc \in {"enrich", "done"} =>
            \A k \in 1..Len(assessments_dicts) :
                \E i \in 1..Len(AllParsed) :
                    NoDuration(AllParsed[i]) = NoDuration(assessments_dicts[k]))
    /\ [](Done => TheResult.records \in {assessments_dicts, load_sample_data})

\* the first crawl visited a page and returned a record; the second crawl
\* fetched that page again and has parsed nothing yet
C22_Witness ==
    /\ Len(callOut) = 1
    /\ callIn.op = "crawl_again"
    /\ callOut[1].records # <<>>
    /\ <<"http", "page", 1>> \in callOut[1].visited
    /\ pc = "scrape"
    /\ Len(fetchLog) = 2
    /\ fetchLog[2].url = <<"http", "page", 1>>
    /\ fetchLog[2].ok
    /\ parsedLog[1].records = <<>>

\* C23 as stated: with a cache file that cannot be read or parsed (and
\* force_refresh false) every return of run_crawl gives the sample data
\* with was_freshly_crawled = false.
C23_CorruptCacheGivesSample ==
    [][(~force_refresh /\ cache.st = "corrupt" /\ pc # "done" /\ pc' = "done") =>
          result' = Returned(load_sample_data, FALSE)]_vars

\* C23, amended: a cache file that cannot be read or parsed is handled like
\* an absent one: a crawl is attempted, and run_crawl returns the crawl's
\* records with was_freshly_crawled = true when the crawl gave records and
\* they were saved, and the sample data otherwise.
C23_CorruptCacheIsRefreshed ==
    [][/\ (pc = "idle" /\ pc' # "idle" /\ ~force_refresh /\ cache.st = "corrupt")
            => crawled'
       /\ (~force_refresh /\ cache.st = "corrupt" /\ pc # "done" /\ pc' = "done") =>
            \/ result'[1].records = load_sample_data
            \/ /\ pc = "enrich"
               /\ assessments_dicts' # <<>>
               /\ result' = Returned(assessments_dicts', TRUE)
               /\ cache' = [st |-> "ok", recs |-> assessments_dicts', age |-> 0]]_vars

\* the cache file is corrupted and the crawl made instead has its records
\* enriched and ready to be saved and returned
C23_Witness ==
    /\ ~force_refresh
    /\ cache.st = "corrupt"
    /\ pc = "enrich"
    /\ assessments_dicts # <<>>
    /\ Len(durations) = Len(assessments_dicts)

\* the cards of a document, inside and outside its containers
C24_Cards(html) ==
    Flatten([i \in 1..Len(html.elems) |-> html.elems[i].cards]) \o html.loose

\* the document has no known-structure element and no table whose headers
\* name a name column and an attribute column, but it has cards
C24_Case(html) ==
    /\ \A i \in 1..Len(html.elems) :
         /\ ~IsKnownRegion(html.elems[i])
         /\ ~(html.elems[i].tag = "table" /\ "name" \in html.elems[i].hdr
              /\ html.elems[i].hdr \cap {"remote", "online", "testing", "type", "duration"} # {})
    /\ C24_Cards(html) # <<>>

\* C24: on such a document the extractor raises no error and returns one
\* record for every card that has a name and a URL.
C24_CardStrategyWorks ==
    callIn.op = "parse_assessment_table" =>
        \A c \in 1..Len(callOut) :
            C24_Case(callOut[c].html) =>
                /\ ~callOut[c].result.raised
                /\ Len(callOut[c].result.records) =
                     Cardinality({i \in 1..Len(C24_Cards(callOut[c].html)) :
                                    /\ C24_Cards(callOut[c].html)[i].name # ""
                                    /\ C24_Cards(callOut[c].html)[i].href # <<>>})

\* the regions of each of the first two and of the last strategy
C25_Known(html) == SelectSeq(html.elems, IsKnownRegion)

C25_Tables(html) == SelectSeq(html.elems, IsTable)

C25_ByHeaders(html) ==
    {i \in 1..Len(C25_Tables(html)) :
        /\ "name" \in C25_Tables(html)[i].hdr
        /\ C25_Tables(html)[i].hdr \cap {"remote", "online", "testing", "type", "duration"} # {}}

\* C25: the strategies are consulted in the order known-structure, header
\* heuristic, card heuristic, every table, and only the first that finds a
\* region is used, even when its region gives no record: with a known
\* region the records are those of the known regions; else with a table
\* that passes the header heuristic those of the first such table; else
\* with cards the card strategy is taken and no table is parsed (the call
\* then ends in the error of C24); only without any of these the records
\* are those of every table.
C25_FirstStrategyOnly ==
    callIn.op = "parse_assessment_table" =>
        \A c \in 1..Len(callOut) :
            LET html == callOut[c].html
                r == callOut[c].result
            IN  IF C25_Known(html) # <<>>
                THEN /\ ~r.raised
                     /\ r.records = Flatten([i \in 1..Len(C25_Known(html)) |->
                                               RegionRecords(C25_Known(html)[i])])
                ELSE IF C25_ByHeaders(html) # {}
                THEN /\ ~r.raised
                     /\ r.records = RegionRecords(C25_Tables(html)[
                            CHOOSE i \in C25_ByHeaders(html) :
                                \A j \in C25_ByHeaders(html) : i <= j])
                ELSE IF C24_Cards(html) # <<>>
                THEN r.records = <<>> /\ r.raised
                ELSE /\ ~r.raised
                     /\ r.records = Flatten([i \in 1..Len(C25_Tables(html)) |->
                                               RegionRecords(C25_Tables(html)[i])])

\* a table of a known class without data rows comes before a table that
\* passes the header heuristic and has a data row, and a card: no record
C25_Witness ==
    /\ callIn.op = "parse_assessment_table"
    /\ Len(callOut) >= 1
    /\ callOut[1].html = callIn.html
    /\ Len(callIn.html.elems) = 2
    /\ callIn.html.elems[1].cls = "products-table"
    /\ Len(callIn.html.elems[1].rows) = 1
    /\ callIn.html.elems[2].hdr = {"name", "type"}
    /\ callIn.html.loose # <<>>
    /\ callOut[1].result = [raised |-> FALSE, records |-> <<>>]

\* what the extractor returns when the header heuristic selects the first
\* table that Selected accepts, for a document without known-structure
\* elements and without cards
C26_Expected(html, Selected(_)) ==
    LET tables == SelectSeq(html.elems, IsTable)
        hits == {i \in 1..Len(tables) : Selected(tables[i])}
    IN  IF hits # {}
        THEN RegionRecords(tables[CHOOSE i \in hits : \A j \in hits : i <= j])
        ELSE Flatten([i \in 1..Len(tables) |-> RegionRecords(tables[i])])

C26_AsStated(t) ==
    /\ t.hdr \cap {"name", "product", "assessment"} # {}
    /\ t.hdr \cap {"remote", "type", "duration"} # {}

C26_AsCoded(t) ==
    /\ t.hdr \cap {"product name", "test name", "assessment name", "name"} # {}
    /\ t.hdr \cap {"remote", "online", "testing", "type", "duration"} # {}

C26_Case(html) ==
    /\ \A i \in 1..Len(html.elems) : ~IsKnownRegion(html.elems[i])
    /\ C24_Cards(html) = <<>>

\* C26 as stated: the table selected is the first whose joined header text
\* contains one of "name", "product", "assessment" and one of "remote",
\* "type", "duration", and only it is parsed.
C26_HeaderTokens ==
    callIn.op = "parse_assessment_table" =>
        \A c \in 1..Len(callOut) :
            C26_Case(callOut[c].html) =>
                callOut[c].result.records = C26_Expected(callOut[c].html, C26_AsStated)

\* C26, amended: the same with the tokens "product name", "test name",
\* "assessment name", "name" (so: the text contains "name") and "remote",
\* "online", "testing", "type", "duration".
C26_HeaderTokensOfCode ==
    callIn.op = "parse_assessment_table" =>
        \A c \in 1..Len(callOut) :
            C26_Case(callOut[c].html) =>
                callOut[c].result.records = C26_Expected(callOut[c].html, C26_AsCoded)

\* two tables pass the heuristic, each with a data row: only the first
\* one's record is returned
C26_Witness ==
    /\ callIn.op = "parse_assessment_table"
    /\ Len(callOut) >= 1
    /\ callOut[1].html = callIn.html
    /\ C26_Case(callIn.html)
    /\ Len(callIn.html.elems) = 2
    /\ callIn.html.elems[1].hdr = {"name", "online"}
    /\ callIn.html.elems[2].hdr = {"name", "type"}
    /\ Len(callIn.html.elems[1].rows) = 2
    /\ Len(callOut[1].result.records) = 1
    /\ callOut[1].result.records[1].name = "A"

\* C27: a turn of the enrichment loop never ends the crawl and never drops
\* a record: it adds one duration, and an absent one when the detail page
\* cannot be fetched (as for a URL that is no absolute URL); the loop goes
\* on with the next record, whose own fetch may succeed; and the output
\* holds every deduplicated record, each with the duration of its turn.
C27_FailedLookupAbsorbed ==
    /\ [][(pc = "enrich" /\ Len(durations) < Len(assessments_dicts)) =>
            /\ pc' = "enrich"
            /\ result' = None
            /\ assessments_dicts' = assessments_dicts
            /\ Len(durations') = Len(durations) + 1
            /\ SubSeq(durations', 1, Len(durations)) = durations
            /\ ~IsAbsolute(assessments_dicts[Len(durations) + 1].url)
                  => durations'[Len(durations')] = None]_vars
    /\ []((Done /\ TheResult.fresh /\ TheResult.records # load_sample_data) =>
            /\ TheResult.records = assessments_dicts
            /\ Urls(assessments_dicts) = Urls(unique_assessments(scraped))
            /\ Len(durations) = Len(assessments_dicts)
            /\ \A k \in 1..Len(durations) : assessments_dicts[k].duration = durations[k])

\* the detail page of the first record could not be fetched, the one of
\* the second record was fetched and gave a duration: both are returned
C27_Witness ==
    /\ Done
    /\ TheResult.fresh
    /\ Len(TheResult.records) = 2
    /\ TheResult.records[1].url = <<>>
    /\ TheResult.records[1].duration = None
    /\ TheResult.records[2].duration = Some(45)

\* the discoverer finds a pagination URL on the page of the innermost call
C28_LinkFound ==
    /\ DetectPagination
    /\ stack'[Len(stack')].pagination_urls # <<>>

\* C28: a fetched page whose parsing gives no record does not end the
\* crawl or its own call: the call goes on to the discovery of pagination
\* links, which below max_depth can find links to unvisited pages on that
\* page as on any other; the links found are followed (none is dropped before it is
\* visited) and the records of every parsed page reach the accumulator.
C28_EmptyPageStillFollowed ==
    /\ [][/\ (pc = "scrape" /\ Top.st = "parse" /\ Len(parsedLog') = Len(parsedLog) + 1) =>
               /\ pc' = "scrape"
               /\ result' = None
               /\ Len(stack') = Len(stack)
               /\ stack'[Len(stack')].st = "detect"
          /\ (pc = "scrape" /\ Top.st = "detect") =>
               /\ pc' = "scrape"
               /\ Len(stack') = Len(stack)
               /\ stack'[Len(stack')].st = "loop"
               /\ (~(Top.depth < max_depth) => stack'[Len(stack')].pagination_urls = <<>>)
          /\ (pc = "scrape" /\ pc' = "scrape") => Owed \subseteq (Owed' \cup processed_urls')
          /\ (pc = "scrape" /\ pc' = "enrich") => (Owed = {} /\ scraped' = AllParsed')]_vars
    /\ []((pc = "scrape" /\ Top.st = "detect" /\ Top.all_assessments = <<>>
           /\ Top.depth < max_depth /\ budget.links > 0
           /\ \E i \in 1..NumPages : <<"http", "page", i>> \notin processed_urls)
              => ENABLED C28_LinkFound)

\* the root gave no record, a page it links to gave one, which is returned
C28_Witness ==
    /\ Done
    /\ TheResult.fresh
    /\ Len(parsedLog) = 2
    /\ parsedLog[1].url = BASE_URL
    /\ parsedLog[1].records = <<>>
    /\ TheResult.records # <<>>
    /\ NoDuration(TheResult.records[1]) = NoDuration(parsedLog[2].records[1])

\* the visited set of an invocation holds, besides the root, only URLs the
\* invocation itself has fetched or is about to fetch, and its records are
\* records of pages it parsed itself
C29_Own(v) ==
    /\ v.pc \in {"scrape", "enrich"} =>
         \A u \in v.processed_urls :
            \/ u = BASE_URL
            \/ \E i \in 1..Len(v.fetchLog) : v.fetchLog[i].url = u
            \/ \E i \in 1..Len(v.stack) : v.stack[i].url = u /\ v.stack[i].st = "fetch"
    /\ v.pc \in {"scrape", "enrich"} =>
         \A i \in 1..Len(v.fetchLog) : v.fetchLog[i].url \in v.processed_urls
    /\ v.pc \in {"enrich", "done"} =>
         \A k \in 1..Len(v.assessments_dicts) :
            \E i \in 1..Len(v.parsedLog), j \in 1..MaxRows :
                /\ j <= Len(v.parsedLog[i].records)
                /\ NoDuration(v.parsedLog[i].records[j]) = NoDuration(v.assessments_dicts[k])
    /\ v.pc = "done" =>
         v.result[1].records \in {v.assessments_dicts, load_sample_data}

\* C29: of two run_crawl invocations interleaved at their awaits each has
\* its own visited set and accumulator: what one has visited does not keep
\* the other from fetching it, and no record passes from one to the other.
C29_NoSharedCrawlState ==
    callIn.op = "two_crawls" => (C29_Own(OwnState) /\ C29_Own(callOut[1]))

\* both invocations are under way, and each has fetched the page that the
\* other has visited too
C29_Witness ==
    /\ callIn.op = "two_crawls"
    /\ pc = "scrape"
    /\ callOut[1].pc = "enrich"
    /\ \E i \in 1..Len(fetchLog) : fetchLog[i].url = <<"http", "page", 1>> /\ fetchLog[i].ok
    /\ \E i \in 1..Len(callOut[1].fetchLog) :
         callOut[1].fetchLog[i].url = <<"http", "page", 1>> /\ callOut[1].fetchLog[i].ok
    /\ <<"http", "page", 1>> \in processed_urls \cap callOut[1].processed_urls

\* the cache was read and the freshness policy rejects it
C30_Rejected ==
    /\ ~force_refresh
    /\ cache.st = "ok"
    /\ (Len(cache.recs) <= 5 \/ cache.age >= 7 * 86400)

\* C30: with a cache that was read and rejected, run_crawl never returns
\* the cached records; when the crawl fails or gives no record it returns
\* the sample data, with was_freshly_crawled = false.
C30_RejectedCacheNotReturned ==
    [][(C30_Rejected /\ pc # "done" /\ pc' = "done") =>
          /\ result'[1].records # cache.recs
          /\ (pc \in {"idle", "scrape"} \/ assessments_dicts = <<>>)
                => result' = Returned(load_sample_data, FALSE)]_vars

\* a cache of 6 records that is 7 days old was rejected, the fetch of the
\* root failed, and the sample data was returned
C30_Witness ==
    /\ Done
    /\ ~force_refresh
    /\ cache.st = "ok"
    /\ Len(cache.recs) = 6
    /\ cache.age = 7 * 86400
    /\ fetchLog # <<>>
    /\ ~fetchLog[1].ok
    /\ TheResult = [records |-> load_sample_data, fresh |-> FALSE]

\* C31: the cache file changes only at the end of a crawl that gave at
\* least one record, and then to these records (or to a broken file when
\* the write fails midway); a cache hit, a crawl that fails at the root or
\* gives no record, and the fallback leave it as it is, and the file never
\* holds the sample records.
C31_CacheWrittenOnlyWithRecords ==
    /\ [][cache' # cache =>
            /\ pc = "enrich"
            /\ pc' = "done"
            /\ assessments_dicts' # <<>>
            /\ assessments_dicts' # load_sample_data
            /\ \/ cache' = [st |-> "ok", recs |-> assessments_dicts', age |-> 0]
               \/ cache'.st = "corrupt"]_vars
    /\ [](cache.st = "ok" => cache.recs # load_sample_data)
    /\ []((Done /\ (~crawled \/ assessments_dicts = <<>>)) =>
            cache \in CacheStates)

\* the cache of 5 records was rejected, the crawl fetched the root and
\* found no record, the sample was returned and the file is as it was
C31_Witness ==
    /\ Done
    /\ crawled
    /\ ~force_refresh
    /\ fetchLog # <<>>
    /\ fetchLog[1].ok
    /\ assessments_dicts = <<>>
    /\ TheResult.records = load_sample_data
    /\ cache.st = "ok"
    /\ Len(cache.recs) = 5
    /\ cache.age = 7 * 86400 - 1

\* C32: was_freshly_crawled is true exactly when the returned records are
\* the records of this invocation's crawl, at least one, and they were
\* saved; when saving raises, the sample is returned with the flag false.
C32_FreshIffCrawledAndSaved ==
    Done =>
        /\ TheResult.fresh <=>
             /\ crawled
             /\ assessments_dicts # <<>>
             /\ TheResult.records = assessments_dicts
             /\ cache = [st |-> "ok", recs |-> assessments_dicts, age |-> 0]
        /\ (crawled /\ assessments_dicts # <<>> /\ TheResult.records # assessments_dicts)
              => TheResult = [records |-> load_sample_data, fresh |-> FALSE]

====
